---------------------------- MODULE Spec2Model ----------------------------
(***************************************************************************)
(* Memory consolidation pipeline of the AI secretary                        *)
(* (AIEngine.compress_memories_stream in ai_engine.py), together with the   *)
(* memory store it works on (database.py, reached through                   *)
(* MemoryMCPServer in memory_mcp.py) and the HTTP memory API (main.py).      *)
(*                                                                         *)
(* The pipeline is an async generator.  It is suspended at every yield     *)
(* (an event has been handed to the consumer) and at every await of an     *)
(* inference call.  One action of the model runs the generator from one    *)
(* suspension point to the next.  pc names the suspension point:           *)
(*   y_*  suspended at a yield,  a_*  awaiting an inference reply.          *)
(*                                                                         *)
(* Text is a sequence of one-character strings, so that len() and strip()  *)
(* are computed and not assumed.  A JSON value is a tagged record          *)
(* [t |-> tag, v |-> payload].                                             *)
(***************************************************************************)
EXTENDS Integers, Sequences, FiniteSets, TLC

\* ------------------------------------------------------------------ bounds
\* Records in the store when a consolidation run starts.
MaxRecords == 2
\* Groups in one similarity reply, entries in one contradiction reply.
MaxGroups == 2
MaxContradictions == 2
\* Consolidation runs in succession over one store.
MaxRuns == 2
\* Records added through the API, the tools and the chat analysis before a run.
MaxExternal == 2
\* Writes of other actors to the store while a run is in progress.
MaxOthers == 1
\* Chat turns.
MaxTurns == 2

\* ------------------------------------------------------- program constants
\* len(m["content"]) > 15
ShortenThreshold == 15

\* A list of the loop in which two categories come twice.
RepeatedCategories == <<"attribute", "memory", "attribute", "memory">>

\* The loop's list read from its end.
ReversedCategories == <<"memory", "request", "goal", "attribute">>

categories == <<"attribute", "goal", "request", "memory">>

ValidCategories == {categories[i] : i \in 1..Len(categories)}

\* -------------------------------------------------------------------- text
Txt(c, n) == [i \in 1..n |-> c]

IsSpace(c) == c = " "

RECURSIVE LStrip(_)
LStrip(s) == IF s # <<>> /\ IsSpace(Head(s)) THEN LStrip(Tail(s)) ELSE s

RECURSIVE RStrip(_)
RStrip(s) ==
    IF s # <<>> /\ IsSpace(s[Len(s)]) THEN RStrip(SubSeq(s, 1, Len(s) - 1)) ELSE s

\* str.strip()
Strip(s) == RStrip(LStrip(s))

\* Text the store holds when a run starts: one at the threshold, one above.
AtThreshold == Txt("s", ShortenThreshold)
AboveThreshold == Txt("x", ShortenThreshold + 1)
ContentPool == {AtThreshold, AboveThreshold}

\* What the inference service can answer to a free-text request.  The empty
\* text is also what _call_llm_text returns on a transport failure, a timeout
\* or a non-200 status.
EmptyText == <<>>
PaddedText == <<" ">> \o Txt("y", ShortenThreshold)
TextReplies == {EmptyText, PaddedText, AboveThreshold}

\* -------------------------------------------------------------------- JSON
JNull == [t |-> "null", v |-> 0]
JInt(n) == [t |-> "int", v |-> n]
JList(s) == [t |-> "list", v |-> s]
\* An object with no key, and an object with the one key k.
JEmpty == [t |-> "obj", v |-> <<>>]
JObj(k, x) == [t |-> "obj", v |-> <<k, x>>]

\* Python truth value of a JSON value.
Truthy(j) ==
    CASE j.t = "null" -> FALSE
      [] j.t = "int" -> j.v # 0
      [] j.t = "list" -> j.v # <<>>
      [] j.t = "obj" -> j.v # <<>>

\* `key in j` for a dict (the lists and numbers are handled by the callers).
HasKey(j, key) == j.t = "obj" /\ j.v # <<>> /\ j.v[1] = key

\* ------------------------------------------------------------------- store
VARIABLES
    store,      \* table memories: id -> [category, content, created_at]
    next_id,    \* AUTOINCREMENT: the next id the table hands out
    clock       \* CURRENT_TIMESTAMP, in seconds

\* ------------------------------------------------- the consolidation run
VARIABLES
    pc,             \* where compress_memories_stream is suspended
    memories,       \* snapshot read at the start of the run
    category,       \* index into categories of the loop variable (0: none yet)
    cat_memories,   \* working list of the category
    groups,         \* the groups of the similarity reply
    group_at,       \* position of the loop in groups (0: not in the loop)
    targets,        \* records of the group being merged
    contradictions, \* the entries of the contradiction reply
    cont_at,        \* position of the loop in contradictions (0: not in it)
    older_id,       \* id the contradiction step is about to delete (0: none)
    idx,            \* position of the shortening loop in cat_memories
    shortened,      \* the stripped rewrite of the shortening step
    reply,          \* the text _call_llm_text has just returned
    events,         \* events handed to the consumer so far
    calls,          \* inference calls issued so far
    mutations,      \* call_tool mutations issued so far
    started,        \* the store as it was when each run started
    answered,       \* some inference call of the run returned more than the
                    \* empty value the helpers return on failure
    stub            \* the inference service: what it answered to which prompt

\* --------------------------------------- other actors and the chat session
VARIABLES
    others,                 \* what other actors did to the store during the run
    history,                \* self.history
    last_interaction_time,  \* self.last_interaction_time
    conversation_active,    \* self.conversation_active
    turns,                  \* chat turns in flight: what each holds locally
    asked,                  \* chat turns started so far
    finished                \* the turn that has just updated the history

storeVars == <<store, next_id, clock>>
chatVars == <<history, last_interaction_time, conversation_active, turns, asked,
              finished>>
sideVars == <<others, chatVars>>
runVars == <<pc, memories, category, cat_memories, groups, group_at, targets,
             contradictions, cont_at, older_id, idx, shortened, reply, events,
             calls, mutations, started, answered, stub>>
vars == <<store, next_id, clock, pc, memories, category, cat_memories, groups,
          group_at, targets, contradictions, cont_at, older_id, idx, shortened,
          reply, events, calls, mutations, started, answered, stub, others,
          history, last_interaction_time, conversation_active, turns, asked,
          finished>>

Ids == DOMAIN store

\* dict(row) of the row with this id
Row(st, i) == [id |-> i, category |-> st[i].category,
               content |-> st[i].content, created_at |-> st[i].created_at]

\* ORDER BY created_at DESC; rows of the same second come in rowid order.
Before(st, i, j) ==
    \/ st[i].created_at > st[j].created_at
    \/ st[i].created_at = st[j].created_at /\ i < j

RECURSIVE SortRows(_, _)
SortRows(st, ids) ==
    IF ids = {} THEN <<>>
    ELSE LET first == CHOOSE i \in ids : \A j \in ids \ {i} : Before(st, i, j)
         IN <<Row(st, first)>> \o SortRows(st, ids \ {first})

\* database.get_memories(), read_resource("memories://all")
get_memories(st) == SortRows(st, DOMAIN st)

\* database.add_memory: INSERT, the id from AUTOINCREMENT, created_at from
\* CURRENT_TIMESTAMP.
add_memory(st, nid, now, cat, content) ==
    [i \in DOMAIN st \cup {nid} |->
        IF i = nid THEN [category |-> cat, content |-> content, created_at |-> now]
        ELSE st[i]]

\* A delete that leaves the table as it is.
LeaveRow(st, i) == st

\* database.delete_memory: DELETE ... WHERE id = ?, nothing when no row has it.
delete_memory(st, i) == [j \in DOMAIN st \ {i} |-> st[j]]

\* An update that inserts the row when no row has the id.
Upsert(st, i, content, cat) ==
    [j \in DOMAIN st \cup {i} |->
        IF j = i THEN [category |-> cat, content |-> content, created_at |-> 0]
        ELSE st[j]]

\* An update that writes the row anew, creation time included.
Rewrite(st, i, content, cat) ==
    [j \in DOMAIN st |->
        IF j = i THEN [category |-> cat, content |-> content, created_at |-> 0]
        ELSE st[j]]

\* database.update_memory: UPDATE ... SET content, category WHERE id = ?.
update_memory(st, i, content, cat) ==
    [j \in DOMAIN st |->
        IF j = i THEN [st[j] EXCEPT !.content = content, !.category = cat]
        ELSE st[j]]

\* ------------------------------------------------------------------ events
\* json.dumps({"step": ..., "message": ...}): the step, and what the message
\* is about: the category being processed, the phase, the ids and the text.
Event(step, cat, phase, ids, text) ==
    [step |-> step, cat |-> cat, phase |-> phase, ids |-> ids, text |-> text]

CatName(k) == IF k \in 1..Len(categories) THEN categories[k] ELSE ""

\* One inference call: which helper, for which phase of which category.
Call(helper, cat, phase) == [helper |-> helper, cat |-> cat, phase |-> phase]

\* One call_tool mutation.
Mutation(tool, cat, i) == [tool |-> tool, cat |-> cat, id |-> i]

\* [m for m in memories if m['category'] == category]
Filter(mems, cat) == SelectSeq(mems, LAMBDA m : m.category = cat)

IdsOf(seq) == {seq[i].id : i \in 1..Len(seq)}

\* [m for m in cat_memories if m["id"] != i]
Without(cm, i) == SelectSeq(cm, LAMBDA m : m.id # i)

\* The id the entry's pair lists last, whatever its older_id says.
LastOf(co, k) == IF k = 0 THEN 0 ELSE co[k].v.ids[2]

\* older_id = cont.get("older_id") of the entry at this position
OlderOf(co, k) == IF k = 0 THEN 0 ELSE co[k].v.older_id.v

\* The control variables of the generator, all at once.  groups and
\* contradictions hold the list of the last reply while its phase lasts, and
\* group_at and cont_at the position of the loop in it.
Ctl(p, c, cm, g, ga, t, co, ca, i, ev, cl) ==
    /\ pc' = p
    /\ category' = c
    /\ cat_memories' = cm
    /\ groups' = g
    /\ group_at' = ga
    /\ targets' = t
    /\ contradictions' = co
    /\ cont_at' = ca
    /\ older_id' = OlderOf(co, ca)
    /\ idx' = i
    /\ events' = ev
    /\ calls' = cl

\* An exception leaves the generator: the run is over, nothing more is yielded.
Raise(cm, g, co) ==
    Ctl("crashed", category, cm, g, 0, <<>>, co, 0, idx, events, calls)

\* The next position of the loop, with records in the snapshot or without.
EveryCategory(k, mems) == IF k <= Len(categories) THEN k ELSE 0

\* First category from position k on that has records in the snapshot, 0 if none.
NextCategory(k, mems) ==
    IF \E j \in k..Len(categories) : Filter(mems, categories[j]) # <<>>
    THEN CHOOSE j \in k..Len(categories) :
            /\ Filter(mems, categories[j]) # <<>>
            /\ \A h \in k..(j - 1) : Filter(mems, categories[h]) = <<>>
    ELSE 0

\* for category in categories: ... continue / yield category_start; after the
\* loop, yield complete.
ForCategory(k, mems, cm) ==
    LET j == NextCategory(k, mems) IN
    IF j # 0
    THEN Ctl("y_category_start", j, Filter(mems, categories[j]), <<>>, 0, <<>>,
             <<>>, 0, 0,
             Append(events, Event("category_start", categories[j], "", {}, <<>>)),
             calls)
    ELSE Ctl("y_complete",
             IF k <= Len(categories) THEN Len(categories) ELSE category,
             IF k <= Len(categories) THEN <<>> ELSE cm,
             <<>>, 0, <<>>, <<>>, 0, 0,
             Append(events, Event("complete", "", "", {}, <<>>)), calls)

\* A length test that lets the threshold itself through.
AtLeastThreshold(m) == Len(m.content) >= ShortenThreshold

\* for m in cat_memories: if len(m["content"]) > 15: await _call_llm_text(...)
NeedsShortening(m) == Len(m.content) > ShortenThreshold

NextLong(i, cm) ==
    IF \E j \in i..Len(cm) : NeedsShortening(cm[j])
    THEN CHOOSE j \in i..Len(cm) :
            /\ NeedsShortening(cm[j])
            /\ \A h \in i..(j - 1) : ~NeedsShortening(cm[h])
    ELSE 0

ShorteningLoop(i, cm) ==
    LET j == NextLong(i, cm) IN
    IF j # 0
    THEN Ctl("a_shorten", category, cm, <<>>, 0, <<>>, <<>>, 0, j, events,
             Append(calls, Call("text", CatName(category), "shorten")))
    ELSE ForCategory(category + 1, memories, cm)

\* A shortening phase that reads its records from the store again.
ShorteningStartLive(cm, g, co) ==
    Ctl("y_process_shorten", category,
        Filter(get_memories(store), CatName(category)), g, 0, <<>>, co, 0, 0,
        Append(events, Event("process", CatName(category), "shorten", {}, <<>>)),
        calls)

\* yield process (shortening check)
ShorteningStart(cm, g, co) ==
    Ctl("y_process_shorten", category, cm, g, 0, <<>>, co, 0, 0,
        Append(events, Event("process", CatName(category), "shorten", {}, <<>>)),
        calls)

\* if len(cat_memories) >= 2: yield process (contradiction search)
AfterSimilarity(cm, g) ==
    IF Len(cm) >= 2
    THEN Ctl("y_process_contradiction", category, cm, g, 0, <<>>, <<>>, 0, 0,
             Append(events,
                    Event("process", CatName(category), "contradiction", {}, <<>>)),
             calls)
    ELSE ShorteningStart(cm, g, <<>>)

\* targets = [m for m in cat_memories if m["id"] in group_ids]
TargetsOf(g, cm) ==
    SelectSeq(cm, LAMBDA m : \E n \in 1..Len(g.v) : g.v[n] = m.id)

\* A group the loop passes over: fewer than two ids, or fewer than two of them
\* in the working list.
SkippedGroup(g, cm) ==
    g.t = "list" /\ (Len(g.v) < 2 \/ Len(TargetsOf(g, cm)) < 2)

\* First position from k on whose group is not passed over, 0 if none.
NextGroupAt(gs, k, cm) ==
    IF \E j \in k..Len(gs) : ~SkippedGroup(gs[j], cm)
    THEN CHOOSE j \in k..Len(gs) :
            /\ ~SkippedGroup(gs[j], cm)
            /\ \A h \in k..(j - 1) : SkippedGroup(gs[h], cm)
    ELSE 0

\* for group_ids in groups["groups"]: ... yield action (merging)
SimilarityLoop(gs, k, cm) ==
    LET j == NextGroupAt(gs, k, cm) IN
    IF j = 0 THEN AfterSimilarity(cm, <<>>)
    ELSE IF gs[j].t # "list" THEN Raise(cm, gs, <<>>)   \* len() of a number
    ELSE Ctl("y_merge_action", category, cm, gs, j, TargetsOf(gs[j], cm),
             <<>>, 0, 0,
             Append(events,
                    Event("action", CatName(category), "merge",
                          IdsOf(TargetsOf(gs[j], cm)), <<>>)),
             calls)

\* older_id = cont.get("older_id"); if older_id: target = next(...); if target:
HasTarget(e, cm) ==
    /\ e.t = "obj"
    /\ e.v.older_id.t = "int"
    /\ e.v.older_id.v # 0
    /\ e.v.older_id.v \in IdsOf(cm)

SkippedEntry(e, cm) == e.t = "obj" /\ ~HasTarget(e, cm)

NextEntryAt(cs, k, cm) ==
    IF \E j \in k..Len(cs) : ~SkippedEntry(cs[j], cm)
    THEN CHOOSE j \in k..Len(cs) :
            /\ ~SkippedEntry(cs[j], cm)
            /\ \A h \in k..(j - 1) : SkippedEntry(cs[h], cm)
    ELSE 0

\* for cont in contradictions["contradictions"]: ... yield action (deleting)
ContradictionLoop(cs, k, cm) ==
    LET j == NextEntryAt(cs, k, cm) IN
    IF j = 0 THEN ShorteningStart(cm, <<>>, cs)
    ELSE IF cs[j].t # "obj" THEN Raise(cm, <<>>, cs)   \* .get of a number
    ELSE Ctl("y_contradiction_action", category, cm, <<>>, 0, <<>>, cs, j, 0,
             Append(events,
                    Event("action", CatName(category), "contradiction",
                          {cs[j].v.older_id.v}, <<>>)),
             calls)

\* ----------------------------------------------------- inference replies
RECURSIVE Ascending(_)
Ascending(S) ==
    IF S = {} THEN <<>>
    ELSE LET m == CHOOSE x \in S : \A y \in S : x <= y
         IN <<m>> \o Ascending(S \ {m})

SeqsUpTo(S, n) == UNION {[1..k -> S] : k \in 0..n}

\* A group of a similarity reply: a list of two or more of the ids the prompt
\* shows, a list of one id, or (a reply of the wrong shape) a bare number where
\* a list is expected.
GroupPool(ids) ==
    {JList(Ascending(g)) : g \in {h \in SUBSET ids : Cardinality(h) >= 2}}
    \cup {JList(<<i>>) : i \in {j \in ids : \A k \in ids : j <= k}}
    \cup {JInt(1)}

\* What _call_llm_json can return for the similarity prompt.  JEmpty is also
\* what it returns on a transport failure, a timeout, a non-200 status or a
\* body that is not JSON.
SimilarityReplies(ids) ==
    {JEmpty, JNull, JInt(1), JList(<<JInt(1)>>),
     JObj("items", JList(<<>>)), JObj("groups", JInt(1))}
    \cup {JObj("groups", JList(gs)) : gs \in SeqsUpTo(GroupPool(ids), MaxGroups)}

\* An entry of a contradiction reply: {"ids": [a, b], "older_id": x}, x one of
\* the two, or null for the first pair; or a bare number where an object is
\* expected.
Entry(a, b, older) == [t |-> "obj", v |-> [ids |-> <<a, b>>, older_id |-> older]]

Pairs(ids) == {p \in ids \X ids : p[1] < p[2]}

EntryPool(ids) ==
    {Entry(p[1], p[2], JInt(p[1])) : p \in Pairs(ids)}
    \cup {Entry(p[1], p[2], JInt(p[2])) : p \in Pairs(ids)}
    \cup {Entry(p[1], p[2], JNull) :
            p \in {q \in Pairs(ids) : \A r \in Pairs(ids) : q[1] <= r[1] /\ q[2] <= r[2]}}
    \cup {JInt(1)}

ContradictionReplies(ids) ==
    {JEmpty, JNull, JInt(1), JList(<<JInt(1)>>),
     JObj("items", JList(<<>>)), JObj("contradictions", JInt(1))}
    \cup {JObj("contradictions", JList(cs)) :
            cs \in SeqsUpTo(EntryPool(ids), MaxContradictions)}

\* The prompts, by the part of their text that varies.
PromptSimilarity(cm) ==
    <<"similarity", [i \in 1..Len(cm) |-> <<cm[i].id, cm[i].content>>]>>
PromptMerge(ts) == <<"merge", [i \in 1..Len(ts) |-> ts[i].content]>>
PromptContradiction(cm) ==
    <<"contradiction",
      [i \in 1..Len(cm) |-> <<cm[i].id, cm[i].content, cm[i].created_at>>]>>
PromptShorten(m) == <<"shorten", m.content>>

\* The service answers r to prompt p.  A deterministic service gives the answer
\* it gave before to the same prompt.
Answers(p, r) ==
    /\ stub.deterministic => \A a \in stub.memo : a[1] = p => a[2] = r
    /\ stub' = IF stub.deterministic
               THEN [stub EXCEPT !.memo = @ \cup {<<p, r>>}]
               ELSE stub

NoReply == <<>>

\* No other actor has touched the store: no record added, no id deleted.
NoOthers == [added |-> {}, deleted |-> {}]

\* No chat turn.
NoTurn == [n |-> 0, input |-> <<>>, reply |-> <<>>, before |-> <<>>,
           after |-> <<>>, active |-> FALSE]

\* -------------------------------------------------------------------- Init
\* The categories of the records a run finds: the first and the last of the
\* loop, and "note", which the API stores and the loop never visits.
StoredCategories == {categories[1], categories[Len(categories)], "note"}

Timelines(n) ==
    {f \in [1..n -> 1..n] :
        /\ n > 0 => f[1] = 1
        /\ \A i \in 1..(n - 1) : f[i + 1] - f[i] \in {0, 1}}

\* The stores of n records with ids 1..n, categories and texts from these sets.
StoresIn(n, cats, texts) ==
    {[i \in 1..n |-> [category |-> c[i], content |-> t[i], created_at |-> f[i]]] :
        c \in [1..n -> cats], t \in [1..n -> texts], f \in Timelines(n)}

StoresOf(n) == StoresIn(n, StoredCategories, ContentPool)

Latest(st) == IF DOMAIN st = {} THEN 1
              ELSE CHOOSE t \in {st[i].created_at : i \in DOMAIN st} :
                      \A i \in DOMAIN st : st[i].created_at <= t

InitRun ==
    /\ pc = "idle"
    /\ memories = <<>>
    /\ category = 0
    /\ cat_memories = <<>>
    /\ groups = <<>>
    /\ group_at = 0
    /\ targets = <<>>
    /\ contradictions = <<>>
    /\ cont_at = 0
    /\ older_id = 0
    /\ idx = 0
    /\ shortened = <<>>
    /\ reply = NoReply
    /\ events = <<>>
    /\ calls = <<>>
    /\ mutations = <<>>
    /\ started = <<>>
    /\ answered = FALSE
    /\ others = NoOthers

\* AIEngine.__init__
InitChat ==
    /\ history = <<>>
    /\ last_interaction_time = 0
    /\ conversation_active = FALSE
    /\ turns = {}
    /\ asked = 0
    /\ finished = NoTurn

Init ==
    /\ store \in UNION {StoresOf(n) : n \in 0..MaxRecords}
    /\ next_id = Cardinality(DOMAIN store) + 1
    /\ clock = Latest(store)
    /\ InitRun
    /\ InitChat
    /\ stub = [deterministic |-> FALSE, memo |-> {}]

\* ------------------------------------------------------------------- steps
\* The control variables stay as they are but for the position, the events
\* and the calls.
Goto(p, ev, cl) ==
    Ctl(p, category, cat_memories, groups, group_at, targets, contradictions,
        cont_at, idx, ev, cl)

\* The consumer asks for the first event: yield start.
Start ==
    /\ pc = "idle"
    /\ Ctl("y_start", 0, <<>>, <<>>, 0, <<>>, <<>>, 0, 0,
           <<Event("start", "", "", {}, <<>>)>>, <<>>)
    /\ memories' = <<>>
    /\ shortened' = <<>>
    /\ reply' = NoReply
    /\ mutations' = <<>>
    /\ started' = Append(started, store)
    /\ answered' = FALSE
    /\ others' = NoOthers
    /\ UNCHANGED <<storeVars, stub, chatVars>>

\* memories = read_resource("memories://all"); an empty store ends the run
\* with the end event, anything else enters the loop over the categories.
ReadSnapshot ==
    /\ pc = "y_start"
    /\ memories' = get_memories(store)
    /\ IF get_memories(store) = <<>>
       THEN Goto("y_end", Append(events, Event("end", "", "", {}, <<>>)), calls)
       ELSE ForCategory(1, get_memories(store), cat_memories)
    /\ reply' = NoReply
    /\ UNCHANGED <<sideVars, storeVars, shortened, mutations, started, answered, stub>>

\* yield process (similarity search)
CategoryStart ==
    /\ pc = "y_category_start"
    /\ Goto("y_process_similarity",
            Append(events,
                   Event("process", CatName(category), "similarity", {}, <<>>)),
            calls)
    /\ reply' = NoReply
    /\ UNCHANGED <<sideVars, storeVars, memories, shortened, mutations, started, answered,
                   stub>>

\* groups = await self._call_llm_json(prompt_similarity): the call is issued.
AskSimilarity ==
    /\ pc = "y_process_similarity"
    /\ Goto("a_similarity", events,
            Append(calls, Call("json", CatName(category), "similarity")))
    /\ reply' = NoReply
    /\ UNCHANGED <<sideVars, storeVars, memories, shortened, mutations, started, answered,
                   stub>>

\* yield info (nothing to merge)
InfoSimilarity ==
    Goto("y_info_similarity",
         Append(events, Event("info", CatName(category), "similarity", {}, <<>>)),
         calls)

\* if groups and "groups" in groups and groups["groups"]: for group_ids in ...
OnSimilarity(r) ==
    IF ~Truthy(r) THEN InfoSimilarity
    ELSE IF r.t = "int" THEN Raise(cat_memories, <<>>, <<>>)   \* "groups" in 1
    ELSE IF ~HasKey(r, "groups") THEN InfoSimilarity
    ELSE IF ~Truthy(r.v[2]) THEN InfoSimilarity
    ELSE IF r.v[2].t # "list" THEN Raise(cat_memories, <<>>, <<>>)  \* for .. in 1
    ELSE SimilarityLoop(r.v[2].v, 1, cat_memories)

\* The similarity call returns.
ReplySimilarity ==
    /\ pc = "a_similarity"
    /\ \E r \in SimilarityReplies(IdsOf(cat_memories)) :
        /\ Answers(PromptSimilarity(cat_memories), r)
        /\ answered' = (answered \/ r # JEmpty)
        /\ OnSimilarity(r)
    /\ reply' = NoReply
    /\ UNCHANGED <<sideVars, storeVars, memories, shortened, mutations, started>>

\* merged_content = await self._call_llm_text(prompt_merge): the call is issued.
AskMerge ==
    /\ pc = "y_merge_action"
    /\ Goto("a_merge", events,
            Append(calls, Call("text", CatName(category), "merge")))
    /\ reply' = NoReply
    /\ UNCHANGED <<sideVars, storeVars, memories, shortened, mutations, started, answered,
                   stub>>

\* A loop over the targets that stops after the first of them.
DeleteFirst(st, ts) ==
    IF ts = <<>> THEN st ELSE delete_memory(st, Head(ts).id)

\* for t in targets: call_tool("delete_memory", {"id": t["id"]})
RECURSIVE DeleteAll(_, _)
DeleteAll(st, ts) ==
    IF ts = <<>> THEN st ELSE DeleteAll(delete_memory(st, Head(ts).id), Tail(ts))

\* A working list that keeps the records of a merged group.
KeepAll(cm, ts) == cm

\* for t in targets: cat_memories = [m for m in cat_memories if m["id"] != t["id"]]
RECURSIVE WithoutAll(_, _)
WithoutAll(cm, ts) ==
    IF ts = <<>> THEN cm ELSE WithoutAll(Without(cm, Head(ts).id), Tail(ts))

DeleteMutations(ts, cat) ==
    [i \in 1..Len(ts) |-> Mutation("delete_memory", cat, ts[i].id)]

\* A merge that stops after its deletions.
DeleteOnly(st, ts, nid, now, cat, content) == DeleteAll(st, ts)

\* The store after the merge of ts into one record with this content.
MergeInto(st, ts, nid, now, cat, content) ==
    add_memory(DeleteAll(st, ts), nid, now, cat, content)

\* The merge call returns: the originals are deleted, the merged record is
\* added, yield result.
ReplyMerge ==
    /\ pc = "a_merge"
    /\ \E r \in TextReplies, now \in {clock, clock + 1} :
        /\ Answers(PromptMerge(targets), r)
        /\ reply' = r
        /\ answered' = (answered \/ r # EmptyText)
        /\ store' = MergeInto(store, targets, next_id, now, CatName(category), r)
        /\ next_id' = next_id + 1
        /\ clock' = now
        /\ mutations' = mutations \o DeleteMutations(targets, CatName(category))
                          \o <<Mutation("add_memory", CatName(category), next_id)>>
        /\ Ctl("y_merge_result", category, WithoutAll(cat_memories, targets),
               groups, group_at, targets, contradictions, cont_at, idx,
               Append(events,
                      Event("result", CatName(category), "merge", {next_id}, r)),
               calls)
    /\ UNCHANGED <<sideVars, memories, shortened, started>>

\* Back in the loop over the groups.
NextGroup ==
    /\ pc = "y_merge_result"
    /\ SimilarityLoop(groups, group_at + 1, cat_memories)
    /\ reply' = NoReply
    /\ UNCHANGED <<sideVars, storeVars, memories, shortened, mutations, started, answered,
                   stub>>

AfterInfoSimilarity ==
    /\ pc = "y_info_similarity"
    /\ AfterSimilarity(cat_memories, <<>>)
    /\ reply' = NoReply
    /\ UNCHANGED <<sideVars, storeVars, memories, shortened, mutations, started, answered,
                   stub>>

\* contradictions = await self._call_llm_json(prompt_contradiction)
AskContradiction ==
    /\ pc = "y_process_contradiction"
    /\ Ctl("a_contradiction", category, cat_memories, <<>>, 0, <<>>, <<>>, 0, 0,
           events, Append(calls, Call("json", CatName(category), "contradiction")))
    /\ reply' = NoReply
    /\ UNCHANGED <<sideVars, storeVars, memories, shortened, mutations, started, answered,
                   stub>>

\* yield info (no contradiction)
InfoContradiction ==
    Goto("y_info_contradiction",
         Append(events,
                Event("info", CatName(category), "contradiction", {}, <<>>)),
         calls)

\* if contradictions and "contradictions" in contradictions and ...: for cont in
OnContradiction(r) ==
    IF ~Truthy(r) THEN InfoContradiction
    ELSE IF r.t = "int" THEN Raise(cat_memories, <<>>, <<>>)
    ELSE IF ~HasKey(r, "contradictions") THEN InfoContradiction
    ELSE IF ~Truthy(r.v[2]) THEN InfoContradiction
    ELSE IF r.v[2].t # "list" THEN Raise(cat_memories, <<>>, <<>>)
    ELSE ContradictionLoop(r.v[2].v, 1, cat_memories)

\* The contradiction call returns.
ReplyContradiction ==
    /\ pc = "a_contradiction"
    /\ \E r \in ContradictionReplies(IdsOf(cat_memories)) :
        /\ Answers(PromptContradiction(cat_memories), r)
        /\ answered' = (answered \/ r # JEmpty)
        /\ OnContradiction(r)
    /\ reply' = NoReply
    /\ UNCHANGED <<sideVars, storeVars, memories, shortened, mutations, started>>

\* call_tool("delete_memory", {"id": older_id}); cat_memories = [...]; on to
\* the next entry.
DeleteOlder ==
    /\ pc = "y_contradiction_action"
    /\ store' = delete_memory(store, older_id)
    /\ mutations' = Append(mutations,
                           Mutation("delete_memory", CatName(category), older_id))
    /\ ContradictionLoop(contradictions, cont_at + 1,
                         Without(cat_memories, older_id))
    /\ reply' = NoReply
    /\ UNCHANGED <<sideVars, next_id, clock, memories, shortened, started, answered, stub>>

AfterInfoContradiction ==
    /\ pc = "y_info_contradiction"
    /\ ShorteningStart(cat_memories, <<>>, <<>>)
    /\ reply' = NoReply
    /\ UNCHANGED <<sideVars, storeVars, memories, shortened, mutations, started, answered,
                   stub>>

\* for m in cat_memories: the first record long enough is sent for a rewrite.
StartShortening ==
    /\ pc = "y_process_shorten"
    /\ ShorteningLoop(1, cat_memories)
    /\ reply' = NoReply
    /\ UNCHANGED <<sideVars, storeVars, memories, shortened, mutations, started, answered,
                   stub>>

\* A test that accepts a rewrite as long as the content, the content included.
NotLonger(rewrite, content) == Len(rewrite) <= Len(content)

\* if len(shortened) < len(m["content"]) and shortened != m["content"]:
AcceptRewrite(rewrite, content) ==
    Len(rewrite) < Len(content) /\ rewrite # content

\* The rewrite returns: shortened = shortened.strip(); an accepted rewrite is
\* announced (yield action), any other is passed over.
ReplyShorten ==
    /\ pc = "a_shorten"
    /\ \E r \in TextReplies :
        /\ Answers(PromptShorten(cat_memories[idx]), r)
        /\ reply' = r
        /\ answered' = (answered \/ r # EmptyText)
        /\ shortened' = Strip(r)
        /\ IF AcceptRewrite(Strip(r), cat_memories[idx].content)
           THEN Goto("y_shorten_action",
                     Append(events,
                            Event("action", CatName(category), "shorten",
                                  {cat_memories[idx].id}, Strip(r))),
                     calls)
           ELSE ShorteningLoop(idx + 1, cat_memories)
    /\ UNCHANGED <<sideVars, storeVars, memories, mutations, started>>

\* call_tool("update_memory", {"id": m["id"], "content": shortened,
\* "category": category}); on to the next record.
UpdateShortened ==
    /\ pc = "y_shorten_action"
    /\ store' = update_memory(store, cat_memories[idx].id, shortened,
                              CatName(category))
    /\ mutations' = Append(mutations,
                           Mutation("update_memory", CatName(category),
                                    cat_memories[idx].id))
    /\ ShorteningLoop(idx + 1, cat_memories)
    /\ reply' = NoReply
    /\ UNCHANGED <<sideVars, next_id, clock, memories, shortened, started, answered, stub>>

\* The generator returns after its last event.
Finish ==
    /\ pc \in {"y_end", "y_complete"}
    /\ Goto("done", events, calls)
    /\ reply' = NoReply
    /\ UNCHANGED <<sideVars, storeVars, memories, shortened, mutations, started, answered,
                   stub>>

Yields == {"y_start", "y_end", "y_category_start", "y_process_similarity",
           "y_info_similarity", "y_merge_action", "y_merge_result",
           "y_process_contradiction", "y_info_contradiction",
           "y_contradiction_action", "y_process_shorten", "y_shorten_action",
           "y_complete"}

\* The consumer stops consuming: the generator is closed where it is suspended.
Cancel ==
    /\ pc \in Yields \ {"y_end", "y_complete"}
    /\ Goto("cancelled", events, calls)
    /\ reply' = NoReply
    /\ UNCHANGED <<sideVars, storeVars, memories, shortened, mutations, started, answered,
                   stub>>

Next ==
    \/ Start
    \/ ReadSnapshot
    \/ CategoryStart
    \/ AskSimilarity
    \/ ReplySimilarity
    \/ AskMerge
    \/ ReplyMerge
    \/ NextGroup
    \/ AfterInfoSimilarity
    \/ AskContradiction
    \/ ReplyContradiction
    \/ DeleteOlder
    \/ AfterInfoContradiction
    \/ StartShortening
    \/ ReplyShorten
    \/ UpdateShortened
    \/ Finish
    \/ Cancel

Spec == Init /\ [][Next]_vars

\* A run over a store whose records are all of one category, one more than
\* MaxRecords of them, and only the oldest may be long enough to be shortened.
InitCrowded ==
    /\ store \in StoresIn(MaxRecords + 1, {categories[2]}, ContentPool)
    /\ \A i \in DOMAIN store \ {1} : store[i].content = AtThreshold
    /\ next_id = Cardinality(DOMAIN store) + 1
    /\ clock = Latest(store)
    /\ InitRun
    /\ InitChat
    /\ stub = [deterministic |-> FALSE, memo |-> {}]

SpecCrowded == InitCrowded /\ [][Next]_vars

\* compress_memories_stream is called again once a run is over: a new
\* generator over the same store.
Rerun ==
    /\ pc = "done"
    /\ Len(started) < MaxRuns
    /\ Goto("idle", events, calls)
    /\ reply' = NoReply
    /\ UNCHANGED <<sideVars, storeVars, memories, shortened, mutations, started, answered,
                   stub>>

NextTwice == Next \/ Rerun

\* Runs in succession over records of one category, with an inference service
\* that gives the same answer to the same prompt.
InitTwice ==
    /\ store \in UNION {StoresIn(n, {categories[1]}, ContentPool) :
                          n \in 0..MaxRecords}
    /\ next_id = Cardinality(DOMAIN store) + 1
    /\ clock = Latest(store)
    /\ InitRun
    /\ InitChat
    /\ stub = [deterministic |-> TRUE, memo |-> {}]

SpecTwice == InitTwice /\ [][NextTwice]_vars

\* ------------------------------ the memory API, the tools, the chat analysis
\* The categories a request, a tool call or an extracted item can carry: one
\* the loop visits first, one it visits last, and one outside every list.
RequestCategories == {categories[1], categories[Len(categories)], "other"}

\* The run has not started: the requests below come before it.
BeforeRun == pc = "idle" /\ started = <<>>

\* An INSERT at this time.
Insert(cat, content, now) ==
    /\ next_id <= MaxExternal
    /\ store' = add_memory(store, next_id, now, cat, content)
    /\ next_id' = next_id + 1
    /\ clock' = now

\* POST /api/memories: add_memory(item.category, item.content)
create_memory ==
    /\ BeforeRun
    /\ \E cat \in RequestCategories, content \in ContentPool,
          now \in {clock, clock + 1} : Insert(cat, content, now)
    /\ UNCHANGED <<runVars, sideVars>>

\* PUT /api/memories/{memory_id}: update_memory(memory_id, item.content,
\* item.category)
update_memory_item ==
    /\ BeforeRun
    /\ \E i \in 1..MaxExternal, cat \in RequestCategories, content \in ContentPool :
        store' = update_memory(store, i, content, cat)
    /\ UNCHANGED <<next_id, clock, runVars, sideVars>>

\* DELETE /api/memories/{memory_id}: delete_memory(memory_id)
delete_memory_item ==
    /\ BeforeRun
    /\ \E i \in 1..MaxExternal : store' = delete_memory(store, i)
    /\ UNCHANGED <<next_id, clock, runVars, sideVars>>

\* database.delete_all_memories: DELETE FROM memories
delete_all_memories(st) == [i \in {} |-> st[i]]

\* MemoryMCPServer.call_tool from outside the pipeline.
call_tool ==
    /\ BeforeRun
    /\ \E cat \in RequestCategories, content \in ContentPool, i \in 1..MaxExternal :
        \/ Insert(cat, content, clock)
        \/ store' = delete_memory(store, i) /\ UNCHANGED <<next_id, clock>>
        \/ store' = update_memory(store, i, content, cat)
              /\ UNCHANGED <<next_id, clock>>
        \/ store' = delete_all_memories(store) /\ UNCHANGED <<next_id, clock>>
    /\ UNCHANGED <<runVars, sideVars>>

\* if category in ['attribute', 'goal', 'memory', 'request']
AnalysisAccepts(cat) == cat \in {"attribute", "goal", "memory", "request"}

\* AIEngine.analyze_and_save: an item extracted from a chat turn is stored when
\* its category is one of the list.
analyze_and_save ==
    /\ BeforeRun
    /\ \E cat \in RequestCategories, content \in ContentPool,
          now \in {clock, clock + 1} :
        /\ AnalysisAccepts(cat)
        /\ Insert(cat, content, now)
    /\ UNCHANGED <<runVars, sideVars>>

NextExt ==
    \/ Next
    \/ create_memory
    \/ update_memory_item
    \/ delete_memory_item
    \/ call_tool
    \/ analyze_and_save

\* Requests to an empty store, then a run.
InitExt ==
    /\ store = <<>>
    /\ next_id = 1
    /\ clock = 1
    /\ InitRun
    /\ InitChat
    /\ stub = [deterministic |-> FALSE, memo |-> {}]

SpecExt == InitExt /\ [][NextExt]_vars

\* ------------------------------------------ other actors during a run
\* The run has read its snapshot and is not over: it is suspended at a yield
\* or awaits an inference reply, and the event loop runs other requests.
InRun == pc \notin {"idle", "y_start", "y_end", "y_complete", "done", "crashed",
                   "cancelled"}

OthersLeft == Cardinality(others.added) + Cardinality(others.deleted) < MaxOthers

\* Another actor (the chat flow, the API) adds a record: add_memory.
OtherAdds ==
    /\ InRun
    /\ OthersLeft
    /\ \E cat \in StoredCategories \cap ValidCategories :
        /\ store' = add_memory(store, next_id, clock, cat, AboveThreshold)
        /\ others' = [others EXCEPT !.added = @ \cup {Row(store', next_id)}]
    /\ next_id' = next_id + 1
    /\ UNCHANGED <<clock, runVars, chatVars>>

\* Another actor deletes a record of the snapshot: DELETE /api/memories/{id}.
OtherDeletes ==
    /\ InRun
    /\ OthersLeft
    /\ \E i \in IdsOf(memories) \cap DOMAIN store :
        /\ store' = delete_memory(store, i)
        /\ others' = [others EXCEPT !.deleted = @ \cup {i}]
    /\ UNCHANGED <<next_id, clock, runVars, chatVars>>

NextRace == Next \/ OtherAdds \/ OtherDeletes

\* Runs over long records of one category, with other actors writing meanwhile.
InitRace ==
    /\ store \in UNION {StoresIn(n, {categories[1]}, {AboveThreshold}) :
                          n \in 1..MaxRecords}
    /\ next_id = Cardinality(DOMAIN store) + 1
    /\ clock = Latest(store)
    /\ InitRun
    /\ InitChat
    /\ stub = [deterministic |-> FALSE, memo |-> {}]

SpecRace == InitRace /\ [][NextRace]_vars

\* ------------------------------------------------------------ chat turns
\* if (current_time - self.last_interaction_time > 300)
IdleLimit == 300

\* A test that lets one more second pass.
IdleLater(now, last) == now - last > IdleLimit + 1

Idle(now, last) == now - last > IdleLimit

\* time.time() when the engine is constructed: a time of day far from 0.
Epoch == IdleLimit + 1

\* Seconds between the starts of two turns.
Gaps == {1, IdleLimit, IdleLimit + 1}

\* The keyword of the reset (the five kana, in Latin letters).
Keyword == <<"a", "r", "i", "g", "a", "t", "o", "u">>

\* Python's "needle in text" for strings.
Contains(text, needle) ==
    \E k \in 0..(Len(text) - Len(needle)) :
        SubSeq(text, k + 1, k + Len(needle)) = needle

\* What the user types: no keyword, the keyword inside a sentence, the
\* beginning of the keyword only.
Inputs == {<<"h", "i">>, <<"o", "h", " ">> \o Keyword \o <<"!">>, <<"a", "r", "i">>}

\* The reply text: the model's answer, or the empty text of a body without
\* message.content.
ChatReplies == {<<"o", "k">>, EmptyText}

Message(role, content) == [role |-> role, content |-> content]

\* AIEngine.chat up to the await of the POST: the idle test, the time stamp, the
\* messages built from the history.
ChatStart ==
    /\ asked < MaxTurns
    /\ \E input \in Inputs, dt \in Gaps :
        LET now == clock + dt
            h == IF Idle(now, last_interaction_time) THEN <<>> ELSE history
        IN /\ clock' = now
           /\ history' = h
           /\ conversation_active' =
                (IF Idle(now, last_interaction_time) THEN FALSE
                 ELSE conversation_active)
           /\ last_interaction_time' = now
           /\ turns' = turns \cup
                {[n |-> asked + 1, input |-> input,
                  gap |-> now - last_interaction_time, before |-> history,
                  context |-> h, at |-> "posted"]}
    /\ asked' = asked + 1
    /\ UNCHANGED <<store, next_id, runVars, others, finished>>

\* The POST returns: the two messages are appended, the keyword is looked for,
\* and the turn goes on to await analyze_and_save.
ChatReply ==
    /\ \E t \in turns, r \in ChatReplies :
        /\ t.at = "posted"
        /\ history' =
             (IF Contains(t.input, Keyword) THEN <<>>
              ELSE history \o <<Message("user", t.input), Message("assistant", r)>>)
        /\ conversation_active' = ~Contains(t.input, Keyword)
        /\ turns' = (turns \ {t}) \cup {[t EXCEPT !.at = "analysing"]}
        /\ finished' = [n |-> t.n, input |-> t.input, reply |-> r,
                        before |-> history, after |-> history',
                        active |-> conversation_active']
    /\ UNCHANGED <<storeVars, runVars, others, last_interaction_time, asked>>

\* analyze_and_save returns, with an item stored or without, and chat returns.
ChatAnalysed ==
    /\ \E t \in turns, save \in BOOLEAN :
        /\ t.at = "analysing"
        /\ turns' = (turns \ {t}) \cup {[t EXCEPT !.at = "returned"]}
        /\ IF save /\ next_id <= MaxExternal /\ AnalysisAccepts(categories[1])
           THEN /\ store' = add_memory(store, next_id, clock, categories[1],
                                       AtThreshold)
                /\ next_id' = next_id + 1
           ELSE UNCHANGED <<store, next_id>>
    /\ UNCHANGED <<clock, runVars, others, history, last_interaction_time,
                   conversation_active, asked, finished>>

NextChat == ChatStart \/ ChatReply \/ ChatAnalysed

\* A new engine over an empty store.
InitTalk ==
    /\ store = <<>>
    /\ next_id = 1
    /\ clock = Epoch
    /\ InitRun
    /\ InitChat
    /\ stub = [deterministic |-> FALSE, memo |-> {}]

SpecChat == InitTalk /\ [][NextChat]_vars

\* ================================================================== claims
Done == pc = "done"

\* The store as the current run found it (the store itself before any run).
AtStart == IF started = <<>> THEN store ELSE started[Len(started)]

EventsWith(step, phase) ==
    {i \in 1..Len(events) : events[i].step = step /\ events[i].phase = phase}

LastEvent == events[Len(events)]

\* Categories of the loop with a record in the snapshot.
Populated == {c \in ValidCategories : Filter(memories, c) # <<>>}

Traversed(c) ==
    \E i \in 1..Len(events) : events[i].step = "category_start" /\ events[i].cat = c

\* C1 (as claimed): when every inference call of a run over a non-empty store
\* fails, the finished run has visited every non-empty category, ends with
\* complete, has left the store as it found it and has emitted no action and
\* no result event.
C1_AllCallsFail ==
    (Done /\ ~answered /\ DOMAIN AtStart # {}) =>
        /\ LastEvent.step = "complete"
        /\ \A c \in Populated : Traversed(c)
        /\ store = AtStart
        /\ \A i \in 1..Len(events) : events[i].step \notin {"action", "result"}

\* The ids a merge took in (its action event) and the record it put out (its
\* result event, which follows at once).
MergeResults == EventsWith("result", "merge")

\* C2: for every merge the run has made (a group with at least two ids of the
\* working list, merge call returned text T), from the result event on and so
\* after the run: none of the group's ids is in the store, the one record the
\* merge created is there with the group's category and content T, and the
\* records that are new since the start of the run are exactly those, one per
\* merge.
C2_MergeReplaces ==
    /\ \A i \in MergeResults :
        /\ events[i - 1].step = "action" /\ events[i - 1].phase = "merge"
        /\ Cardinality(events[i - 1].ids) >= 2
        /\ events[i - 1].ids \subseteq DOMAIN AtStart
        /\ events[i - 1].ids \cap DOMAIN store = {}
        /\ \E n \in events[i].ids :
            /\ events[i].ids = {n}
            /\ n \in DOMAIN store
            /\ n \notin DOMAIN AtStart
            /\ store[n].category = events[i].cat
            /\ store[n].content = events[i].text
    /\ DOMAIN store \ DOMAIN AtStart = UNION {events[i].ids : i \in MergeResults}
    /\ Cardinality(DOMAIN store \ DOMAIN AtStart) = Cardinality(MergeResults)

\* A finished run that merged two records into a text that is not empty.
C2_Witness ==
    /\ Done
    /\ \E i \in MergeResults :
        /\ Cardinality(events[i - 1].ids) = 2
        /\ events[i].text = PaddedText

\* ---------------------------------------------------------------------- C3
\* The contradiction phase of the current category has run to its end.
ContradictionOver == pc = "y_process_shorten" /\ contradictions # <<>>

\* The ids the phase announced as deleted.
AnnouncedOlder ==
    UNION {events[i].ids :
            i \in {j \in EventsWith("action", "contradiction") :
                     events[j].cat = CatName(category)}}

\* The working list as it was when the phase started.
WorkingAtPhaseStart == IdsOf(cat_memories) \cup AnnouncedOlder

EarlierOf(e) ==
    IF AtStart[e.v.ids[1]].created_at < AtStart[e.v.ids[2]].created_at
    THEN e.v.ids[1] ELSE e.v.ids[2]

LaterOf(e) ==
    IF AtStart[e.v.ids[1]].created_at < AtStart[e.v.ids[2]].created_at
    THEN e.v.ids[2] ELSE e.v.ids[1]

\* The entry reports a pair of the working list with differing created_at and
\* names the earlier one as older_id.
NamesEarlier(e) ==
    /\ e.t = "obj"
    /\ {e.v.ids[1], e.v.ids[2]} \subseteq WorkingAtPhaseStart
    /\ AtStart[e.v.ids[1]].created_at # AtStart[e.v.ids[2]].created_at
    /\ e.v.older_id = JInt(EarlierOf(e))

NamedOlder(i) ==
    \E k \in 1..Len(contradictions) :
        contradictions[k].t = "obj" /\ contradictions[k].v.older_id = JInt(i)

Unchanged(i) == i \in DOMAIN store /\ store[i] = AtStart[i]

\* C3 (as claimed): after the contradiction phase, for every entry of the
\* reply that reports a pair of the working list with differing created_at and
\* names the earlier one as older_id, the earlier record is absent from the
\* store and the later one is present with the id, category, created_at and
\* content it had.
C3_LaterKept ==
    ContradictionOver =>
        \A k \in 1..Len(contradictions) :
            NamesEarlier(contradictions[k]) =>
                /\ EarlierOf(contradictions[k]) \notin DOMAIN store
                /\ Unchanged(LaterOf(contradictions[k]))

\* C3 (amended): after the contradiction phase, for every such entry the
\* earlier record is absent from the store, and the later one is present with
\* the id, category, created_at and content it had unless an entry of the same
\* reply names it as older_id.
C3_LaterKeptUnlessNamed ==
    ContradictionOver =>
        \A k \in 1..Len(contradictions) :
            NamesEarlier(contradictions[k]) =>
                /\ EarlierOf(contradictions[k]) \notin DOMAIN store
                /\ ~NamedOlder(LaterOf(contradictions[k])) =>
                       Unchanged(LaterOf(contradictions[k]))

\* The phase is over for a reply of one entry that names the earlier record of
\* its pair, and the later record is in the store as it was.
C3_Witness ==
    /\ ContradictionOver
    /\ Len(contradictions) = 1
    /\ NamesEarlier(contradictions[1])
    /\ EarlierOf(contradictions[1]) \in DOMAIN AtStart \ DOMAIN store
    /\ Unchanged(LaterOf(contradictions[1]))

\* ---------------------------------------------------------------------- C4
ShortenActions == EventsWith("action", "shorten")

\* The record is longer than 15 characters and the text is strictly shorter
\* than its content and different from it.
Shortens(text, m) ==
    /\ Len(m.content) > ShortenThreshold
    /\ Len(text) < Len(m.content)
    /\ text # m.content

\* What holds of the records and the events whatever is taken as the rewrite:
\* a record of the store that is not as the run found it has its content from
\* a shortening event about it, and its category and created_at as before;
\* every shortening event is about a record longer than 15 characters and
\* carries a text strictly shorter than and different from its content.
OnlyShortened ==
    /\ \A i \in DOMAIN store \cap DOMAIN AtStart :
        \/ store[i] = AtStart[i]
        \/ \E k \in ShortenActions :
            /\ events[k].ids = {i}
            /\ store[i] = [AtStart[i] EXCEPT !.content = events[k].text]
    /\ \A k \in ShortenActions :
        \A i \in events[k].ids :
            /\ events[k].ids = {i}
            /\ i \in DOMAIN AtStart
            /\ Shortens(events[k].text, AtStart[i])

\* C4 (as claimed): a record is overwritten in the shortening phase (the
\* update is announced and about to be made) only when it is longer than 15
\* characters and the rewrite returned for it is strictly shorter than and
\* different from its content; every other record has its content, category
\* and created_at as before and no event.
C4_RewriteReturned ==
    /\ pc = "y_shorten_action" => Shortens(reply, cat_memories[idx])
    /\ OnlyShortened

\* C4 (amended): the same, of the rewrite with its surrounding whitespace
\* removed, which is the text the record is overwritten with.
C4_RewriteStripped ==
    /\ pc = "y_shorten_action" =>
        /\ Shortens(Strip(reply), cat_memories[idx])
        /\ shortened = Strip(reply)
        /\ LastEvent = Event("action", CatName(category), "shorten",
                             {cat_memories[idx].id}, Strip(reply))
        /\ store[cat_memories[idx].id].content = cat_memories[idx].content
    /\ OnlyShortened

\* A finished run that has overwritten one record with the rewrite returned
\* for it and left another, whose rewrite was no shorter, as it was.
C4_Witness ==
    /\ Done
    /\ Cardinality(ShortenActions) = 1
    /\ \E i, j \in DOMAIN store \cap DOMAIN AtStart :
        /\ store[i].content = Strip(PaddedText)
        /\ AtStart[i].content = AboveThreshold
        /\ store[j] = AtStart[j]
        /\ store[j].content = AboveThreshold
        /\ store[j].category = store[i].category

\* ---------------------------------------------------------------------- C5
\* A run that followed another one is over.
SecondDone == Done /\ Len(started) >= 2

\* The store as the run before the current one found it.
BeforeFirst == started[Len(started) - 1]

\* C5 (as claimed): a run that follows another one, with an inference
\* service that answers the same prompt the same way and nothing else touching
\* the store, issues no store mutation and leaves the store as the run before
\* it left it.
C5_SecondRunIdle ==
    SecondDone => mutations = <<>> /\ store = AtStart

\* C5 (amended): that holds of a run that follows a run which left the store
\* as it found it.
C5_FixedPoint ==
    (SecondDone /\ AtStart = BeforeFirst) => mutations = <<>> /\ store = AtStart

\* A second run is over after a first one that issued every inference call
\* of a category of two records, one of them long, and changed nothing.
C5_Witness ==
    /\ SecondDone
    /\ AtStart = BeforeFirst
    /\ Cardinality(DOMAIN store) = 2
    /\ \E k \in 1..Len(calls) : calls[k].phase = "contradiction"
    /\ \E k \in 1..Len(calls) : calls[k].phase = "shorten"

\* ---------------------------------------------------------------------- C6
\* Positions of the events of a category.
EventsOf(c) == {i \in 1..Len(events) : events[i].cat = c}

\* C6: the events of a category are one contiguous block, which begins with
\* the category_start event of the category and holds no other category_start
\* (no event of the category comes before its category_start, every other
\* event of the category follows an event of the category at once); a
\* complete event is the last event of the sequence, and a run that returned
\* from a store with records ends with it.
C6_Blocks ==
    /\ \A i \in 1..Len(events) :
        events[i].cat \in ValidCategories =>
            IF events[i].step = "category_start"
            THEN \A k \in 1..(i - 1) : events[k].cat # events[i].cat
            ELSE i > 1 /\ events[i - 1].cat = events[i].cat
    /\ \A i \in 1..Len(events) : events[i].step = "complete" => i = Len(events)
    /\ (Done /\ DOMAIN AtStart # {}) => LastEvent.step = "complete"

\* A run is over that went through two categories, with events of three kinds
\* in the first of them.
C6_Witness ==
    /\ Done
    /\ LastEvent.step = "complete"
    /\ \A c \in StoredCategories \cap ValidCategories :
        \E i \in EventsOf(c) : events[i].step = "process"
    /\ \E i \in EventsOf(categories[1]) : events[i].step = "action"

\* ---------------------------------------------------------------------- C7
\* The generator has run to its end with a consumer that kept consuming: it
\* returned, or an exception left it.
RunOver == pc \in {"done", "crashed"}

Terminals == {i \in 1..Len(events) : events[i].step \in {"complete", "end"}}

\* C7 (as claimed): a run whose consumer keeps consuming ends with exactly
\* one terminal event, complete for a store with records, end for an empty
\* store and then with no category touched, and every category with records
\* is processed, whatever the inference service returns.
C7_AlwaysTerminal ==
    RunOver =>
        /\ Terminals = {Len(events)}
        /\ LastEvent.step = (IF DOMAIN AtStart = {} THEN "end" ELSE "complete")
        /\ DOMAIN AtStart = {} => \A c \in ValidCategories : EventsOf(c) = {}
        /\ \A c \in Populated : Traversed(c)

\* ---------------------------------------------------------------------- C8
\* The mutation the event at position i describes has been applied: the
\* record a contradiction event names is gone, the record a shortening event
\* names holds the text of the event, the record a merge result names is there.
Applied(i) ==
    CASE events[i].step = "action" /\ events[i].phase = "contradiction" ->
            events[i].ids \cap DOMAIN store = {}
      [] events[i].step = "action" /\ events[i].phase = "shorten" ->
            \A r \in events[i].ids :
                r \in DOMAIN store /\ store[r].content = events[i].text
      [] events[i].step = "result" ->
            \A r \in events[i].ids :
                r \in DOMAIN store /\ store[r].content = events[i].text
      [] OTHER -> TRUE

\* C8 (as claimed): the mutation every delivered event describes has already
\* been applied to the store.
C8_EventsAfterMutation == \A i \in 1..Len(events) : Applied(i)

\* ---------------------------------------------------------------------- C9
\* Categories of the loop with no record in the snapshot the run has read.
Unpopulated ==
    IF pc \in {"idle", "y_start"} THEN {}
    ELSE {c \in ValidCategories : Filter(memories, c) = <<>>}

\* C9: for a category with no record in the snapshot the run issues no
\* inference call and no store mutation and emits no event.
C9_EmptySkipped ==
    \A c \in Unpopulated :
        /\ EventsOf(c) = {}
        /\ \A k \in 1..Len(calls) : calls[k].cat # c
        /\ \A k \in 1..Len(mutations) : mutations[k].cat # c

\* A run over records of the last category only is over: it issued calls and
\* a mutation for that category and passed over the three before it.
C9_Witness ==
    /\ Done
    /\ Populated = {categories[Len(categories)]}
    /\ Cardinality(Unpopulated) = Len(categories) - 1
    /\ calls # <<>>
    /\ mutations # <<>>

\* --------------------------------------------------------------------- C10
\* C10 (as claimed): whatever the chat analyses, the API calls, the tool
\* calls and the consolidation runs so far, every record of the store has one
\* of the four categories.
C10_ClosedCategories == \A i \in DOMAIN store : store[i].category \in ValidCategories

\* --------------------------------------------------------------------- C11
MutatedIds == {mutations[k].id : k \in 1..Len(mutations)}

\* C11: a record another actor added after the run read its snapshot is in
\* none of the lists the run builds its prompts from (the snapshot, the
\* working list, the group being merged), is the subject of no mutation of the
\* run, and is in the store as it was added.
C11_AddedInvisible ==
    \A r \in others.added :
        /\ r.id \notin IdsOf(memories) \cup IdsOf(cat_memories) \cup IdsOf(targets)
        /\ r.id \notin MutatedIds
        /\ r.id \in DOMAIN store
        /\ Row(store, r.id) = r

\* A run is over that shortened a record of its snapshot after another actor
\* had added a record of the same category, just as long.
C11_Witness ==
    /\ Done
    /\ \E r \in others.added :
        /\ r.category = categories[1]
        /\ \E k \in ShortenActions : events[k].cat = r.category

\* --------------------------------------------------------------------- C12
\* Ids the run asked the store to delete or update after another actor had
\* deleted them.
CalledOnMissing ==
    {mutations[k].id :
        k \in {j \in 1..Len(mutations) :
                 /\ mutations[j].tool \in {"delete_memory", "update_memory"}
                 /\ mutations[j].id \in others.deleted}}

\* C12: a record another actor deleted after the snapshot is never back in the
\* store, whatever the run calls on its id; the records the run found and
\* called nothing on are as they were or deleted by the other actor; a run
\* that made such a call and returned ends with complete.
C12_MissingIdNoOp ==
    /\ others.deleted \cap DOMAIN store = {}
    /\ \A i \in DOMAIN AtStart \ MutatedIds :
        IF i \in DOMAIN store THEN store[i] = AtStart[i] ELSE i \in others.deleted
    /\ (Done /\ CalledOnMissing # {}) => LastEvent.step = "complete"

\* A run is over that called update_memory on an id another actor had deleted.
C12_Witness ==
    /\ Done
    /\ LastEvent.step = "complete"
    /\ \E k \in 1..Len(mutations) :
        /\ mutations[k].tool = "update_memory"
        /\ mutations[k].id \in others.deleted

\* --------------------------------------------------------------------- C13
\* A step that is a PUT /api/memories/{id} request.
ApiUpdate ==
    /\ BeforeRun
    /\ UNCHANGED <<next_id, clock, runVars>>
    /\ \E i \in DOMAIN store, cat \in RequestCategories, content \in ContentPool :
        store' = update_memory(store, i, content, cat)

\* A step that is the update_memory call of the shortening phase.
ShortenUpdate == pc = "y_shorten_action" /\ pc' \notin {pc, "cancelled"}

Changed == {i \in DOMAIN store : store'[i] # store[i]}

\* C13: an update, of the API or of the shortening phase, leaves the set of ids
\* and every created_at as they were and changes at most the record it names;
\* the shortening update gives that record the rewritten text and the
\* category of the loop.
C13_UpdateFrame ==
    [][(ApiUpdate \/ ShortenUpdate) =>
        /\ DOMAIN store' = DOMAIN store
        /\ \A i \in DOMAIN store : store'[i].created_at = store[i].created_at
        /\ Cardinality(Changed) <= 1
        /\ ShortenUpdate =>
            /\ Changed \subseteq {cat_memories[idx].id}
            /\ \A i \in Changed :
                /\ store'[i].content = shortened
                /\ store'[i].category = CatName(category)]_vars

\* A run is over that gave a record a shorter text; the record has the
\* creation time it had when the run began.
C13_Witness ==
    /\ Done
    /\ \E k \in 1..Len(mutations) :
        /\ mutations[k].tool = "update_memory"
        /\ mutations[k].id \in DOMAIN store \cap DOMAIN AtStart
        /\ store[mutations[k].id].content # AtStart[mutations[k].id].content
        /\ store[mutations[k].id].created_at = AtStart[mutations[k].id].created_at

\* --------------------------------------------------------------------- C14
\* The entry of the contradiction reply the pipeline is acting on.
ActedEntry == contradictions[cont_at]

\* C14 (as claimed): whenever the pipeline has announced the deletion for an
\* entry and is about to delete, the record to delete is one of the entry's
\* pair and no record of the pair is older than it.
C14_EarlierDeleted ==
    pc = "y_contradiction_action" =>
        /\ older_id \in {ActedEntry.v.ids[1], ActedEntry.v.ids[2]}
        /\ \A i \in {ActedEntry.v.ids[1], ActedEntry.v.ids[2]} :
            AtStart[older_id].created_at <= AtStart[i].created_at

\* --------------------------------------------------------------------- C15
\* The merge call of the group at hand has just come back with the empty text,
\* which is what a failed call gives.
MergeCallFailed == pc = "y_merge_result" /\ reply = EmptyText

\* C15 (as claimed): when the merge call of a group fails, the records of the
\* group are still in the store and the step has inserted no record.
C15_FailedMergeNoOp ==
    MergeCallFailed =>
        /\ IdsOf(targets) \subseteq DOMAIN store
        /\ LastEvent.ids \cap DOMAIN store = {}

\* --------------------------------------------------------------------- C16
MergeActions == EventsWith("action", "merge")

MergeCalls == {k \in 1..Len(calls) : calls[k].phase = "merge"}

Deletions == {k \in 1..Len(mutations) : mutations[k].tool = "delete_memory"}

Additions == {k \in 1..Len(mutations) : mutations[k].tool = "add_memory"}

\* C16: the groups the run merges share no record and have two records or
\* more each; no id is deleted twice; there is a merge call only for a group
\* announced by an action event, a result only for a call, and a new record
\* only for a result.
C16_ConsumedOnce ==
    /\ \A i, j \in MergeActions :
        i # j => events[i].ids \cap events[j].ids = {}
    /\ \A i \in MergeActions : Cardinality(events[i].ids) >= 2
    /\ \A j, k \in Deletions : j # k => mutations[j].id # mutations[k].id
    /\ Cardinality(MergeCalls) <= Cardinality(MergeActions)
    /\ Cardinality(MergeResults) <= Cardinality(MergeCalls)
    /\ Cardinality(Additions) = Cardinality(MergeResults)

\* The first group of a reply has been merged and the second group, two ids
\* one of which the first group consumed, is left with fewer than two records
\* of the working list.
C16_Witness ==
    /\ pc = "y_merge_result"
    /\ group_at = 1
    /\ Len(groups) = 2
    /\ groups[2].t = "list"
    /\ Len(groups[2].v) = 2
    /\ \E n \in 1..2 : groups[2].v[n] \in IdsOf(targets)
    /\ SkippedGroup(groups[2], cat_memories)

\* --------------------------------------------------------------------- C17
\* Runs over long records of the first category and one of the last.
InitOrder ==
    /\ store \in StoresIn(MaxRecords + 1, {categories[1], categories[4]},
                          {AboveThreshold})
    /\ \A i \in DOMAIN store :
        store[i].category = IF i <= MaxRecords THEN categories[1] ELSE categories[4]
    /\ next_id = Cardinality(DOMAIN store) + 1
    /\ clock = Latest(store)
    /\ InitRun
    /\ InitChat
    /\ stub = [deterministic |-> FALSE, memo |-> {}]

SpecOrder == InitOrder /\ [][Next]_vars

\* The phase a suspension point belongs to: 1 merge, 2 contradiction,
\* 3 shortening, 0 none.
StageOf(p) ==
    CASE p \in {"y_process_similarity", "a_similarity", "y_info_similarity",
                "y_merge_action", "a_merge", "y_merge_result"} -> 1
      [] p \in {"y_process_contradiction", "a_contradiction",
                "y_info_contradiction", "y_contradiction_action"} -> 2
      [] p \in {"y_process_shorten", "a_shorten", "y_shorten_action"} -> 3
      [] OTHER -> 0

PhaseRank(ph) ==
    CASE ph \in {"similarity", "merge"} -> 1
      [] ph = "contradiction" -> 2
      [] ph = "shorten" -> 3
      [] OTHER -> 0

\* The order the categories are to be processed in.
EnumerationOrder == <<"attribute", "goal", "request", "memory">>

CatIndex(c) ==
    IF \E k \in 1..Len(EnumerationOrder) : EnumerationOrder[k] = c
    THEN CHOOSE k \in 1..Len(EnumerationOrder) : EnumerationOrder[k] = c
    ELSE 0

\* How far the run is: the category of the fixed order first, its phase next.
Position ==
    IF pc \in {"y_end", "y_complete"} THEN 4 * (Len(EnumerationOrder) + 1)
    ELSE 4 * CatIndex(CatName(category)) + StageOf(pc)

InLoop(p) == p \notin {"idle", "done", "crashed", "cancelled"}

ToolStages(tool) ==
    CASE tool = "add_memory" -> {1}
      [] tool = "delete_memory" -> {1, 2}
      [] tool = "update_memory" -> {3}
      [] OTHER -> {}

\* C17: a step of the run never moves back in the order of the categories
\* (attribute, goal, request, memory) and, within a category, of the phases
\* (merge, contradiction, shortening); an inference call is issued for the
\* category and phase the run is then in, and every mutation is made for the
\* category and by a tool of the phase the run is in when it makes it.
C17_FixedOrder ==
    [][/\ (InLoop(pc) /\ InLoop(pc')) => Position' >= Position
       /\ Len(calls') > Len(calls) =>
            /\ Len(calls') = Len(calls) + 1
            /\ 4 * CatIndex(calls'[Len(calls')].cat)
                 + PhaseRank(calls'[Len(calls')].phase) = Position'
       /\ Len(mutations') > Len(mutations) =>
            \A k \in (Len(mutations) + 1)..Len(mutations') :
                /\ mutations'[k].cat = CatName(category)
                /\ StageOf(pc) \in ToolStages(mutations'[k].tool)]_vars

\* A run is over that made calls of the three phases and a deletion in the
\* first category and then a call and an update in the last one.
C17_Witness ==
    /\ Done
    /\ \A ph \in {"similarity", "contradiction", "shorten"} :
        \E k \in 1..Len(calls) : calls[k].cat = categories[1] /\ calls[k].phase = ph
    /\ \E k \in Deletions : mutations[k].cat = categories[1]
    /\ \E k \in 1..Len(calls) : calls[k].cat = categories[4]
    /\ \E k \in 1..Len(mutations) :
        mutations[k].cat = categories[4] /\ mutations[k].tool = "update_memory"

\* --------------------------------------------------------------------- C18
\* Ids and contents of the working list, and of the store's records of the
\* category at hand.
WorkingRecords ==
    {<<cat_memories[k].id, cat_memories[k].content>> : k \in 1..Len(cat_memories)}

StoredRecords ==
    {<<i, store[i].content>> :
        i \in {j \in DOMAIN store : store[j].category = CatName(category)}}

\* C18 (as claimed): at the start of the contradiction phase and at the start
\* of the shortening phase of a category the working list holds the ids and
\* contents the store holds for the category.
C18_WorkingListInStep ==
    pc \in {"y_process_contradiction", "y_process_shorten"} =>
        WorkingRecords = StoredRecords

\* --------------------------------------------------------------------- C19
Alternating(h) ==
    /\ Len(h) % 2 = 0
    /\ \A k \in 1..Len(h) :
        h[k].role = IF k % 2 = 1 THEN "user" ELSE "assistant"

\* C19: a turn that started more than 300 seconds after the turn before it
\* had no earlier message in its context; the turn that last updated the
\* history left it empty and the conversation inactive when its input holds
\* the keyword, and otherwise left it longer by its user message followed by
\* the reply, the conversation active; the history is always of even length,
\* user and assistant messages in turn.
C19_ChatBookkeeping ==
    /\ \A t \in turns : t.gap > 300 => t.context = <<>>
    /\ finished.n > 0 =>
        IF Contains(finished.input, Keyword)
        THEN finished.after = <<>> /\ ~finished.active
        ELSE /\ finished.after =
                  finished.before \o <<Message("user", finished.input),
                                       Message("assistant", finished.reply)>>
             /\ finished.active
    /\ Alternating(history)

\* A turn that started 301 seconds after the one before, while the history
\* held messages, and whose input holds the keyword has updated the history
\* and returned.
C19_Witness ==
    \E t \in turns :
        /\ t.gap = 301
        /\ t.before # <<>>
        /\ t.at = "returned"
        /\ finished.n = t.n
        /\ Contains(finished.input, Keyword)

\* --------------------------------------------------------------------- C20
\* The merge announced by event i has reported its result.
Merged(i) == i < Len(events) /\ events[i + 1].step = "result"

\* C20: wherever the run is suspended, has returned or was closed, a group
\* whose merge was announced is either not merged (the announcement is the
\* last event, every record of the group is in the store and the run has
\* deleted none of them) or merged (none of its records is in the store and
\* the record of the result is).
C20_MergeAtomic ==
    \A i \in MergeActions :
        IF Merged(i)
        THEN /\ events[i].ids \cap DOMAIN store = {}
             /\ events[i + 1].ids # {}
             /\ events[i + 1].ids \subseteq DOMAIN store
        ELSE /\ i = Len(events)
             /\ events[i].ids \subseteq DOMAIN store
             /\ events[i].ids \cap MutatedIds = {}

\* The consumer closed the run at the result event of a merge of two records.
C20_Witness ==
    /\ pc = "cancelled"
    /\ LastEvent.step = "result"
    /\ Cardinality(events[Len(events) - 1].ids) = 2

\* --------------------------------------------------------------------- C21
Count == Cardinality(DOMAIN store)

\* The steps of the run that call the store: they add to the log of mutations.
Mutates == Len(mutations') > Len(mutations)

\* C21: no step of a run makes the store hold more records than before; the
\* step of a merge takes the two or more records of the group out of the
\* store and puts one new record in, the step of a contradiction takes one
\* record out, and the step of a shortening takes none out and puts none in.
C21_CountNeverGrows ==
    [][/\ Count' <= Count
       /\ (pc = "a_merge" /\ Mutates) =>
            /\ Cardinality(IdsOf(targets)) >= 2
            /\ IdsOf(targets) \subseteq DOMAIN store
            /\ Cardinality(DOMAIN store' \ DOMAIN store) = 1
            /\ DOMAIN store \ DOMAIN store' = IdsOf(targets)
       /\ (pc = "y_contradiction_action" /\ Mutates) =>
            /\ Cardinality(DOMAIN store \ DOMAIN store') = 1
            /\ DOMAIN store' \subseteq DOMAIN store
       /\ (pc = "y_shorten_action" /\ Mutates) =>
            DOMAIN store' = DOMAIN store]_vars

\* A run is over that merged two records into one and then gave the record
\* that was left a shorter text: the store holds one record fewer than at the
\* start.
C21_Witness ==
    /\ Done
    /\ Additions # {}
    /\ \E k \in 1..Len(mutations) : mutations[k].tool = "update_memory"
    /\ Count = Cardinality(DOMAIN AtStart) - 1

=============================================================================
